---- MODULE Spec2Model ----
(***************************************************************************)
(* PyJam (main.py): note-token parser, tone synthesizer, mixer, sequencer  *)
(* (play_song) and the two GUI handlers that start a render.               *)
(*                                                                         *)
(* Representation.                                                         *)
(*  - A Python str is a sequence of one-character strings, so that         *)
(*    endswith, slicing and indexing are computed, not assumed.            *)
(*  - Frequencies are in centi-hertz (261.63 Hz = 26163), volumes in       *)
(*    percent (0.5 = 50).                                                  *)
(*  - A Python float is an IEEE-754 double [m, e], computed bit for bit.   *)
(*    bpm values are whole numbers.                                        *)
(*  - The mixer is modelled on concrete int16 sample sequences             *)
(*    (mix_audio_segments).  The samples of a sounding tone are values of  *)
(*    sin() and are not computed: inside play_song an int16 array is       *)
(*    described by its length and by the tones that sound in it            *)
(*    (sine_wave, mix_chord, concatenate).                                 *)
(***************************************************************************)
EXTENDS Integers, Sequences, FiniteSets, Bags, TLC

(***************************************************************************)
(* Generic helpers                                                         *)
(***************************************************************************)
Min(a, b) == IF a <= b THEN a ELSE b

Max(a, b) == IF a >= b THEN a ELSE b

Range(s) == {s[i] : i \in DOMAIN s}

\* s[a:b] of Python for 0 <= a, b (0-based, half open), clamped to len(s)
Slice(s, a, b) == SubSeq(s, Min(a, Len(s)) + 1, Min(b, Len(s)))

(***************************************************************************)
(* Python float arithmetic (IEEE-754 binary64, round to nearest, ties to   *)
(* even) on positive normal numbers.  A float is [m, e]: m its 53          *)
(* significant bits, most significant first, and its value is m * 2^e.     *)
(* Integers of more than 31 bits are bit strings; they are multiplied in   *)
(* limbs of 13 bits.                                                       *)
(***************************************************************************)
MantBits == 53

LimbBits == 13

LimbBase == 2^LimbBits

\* Value of a bit string of at most 13 bits
RECURSIVE BitsToInt(_)
BitsToInt(bits) ==
  IF bits = <<>> THEN 0 ELSE 2 * BitsToInt(SubSeq(bits, 1, Len(bits) - 1)) + bits[Len(bits)]

\* The k low bits of x, most significant first
IntToBits(x, k) == [i \in 1..k |-> (x \div 2^(k - i)) % 2]

\* The bit string without its leading zeros
StripZeros(bits) ==
  IF \A i \in DOMAIN bits : bits[i] = 0 THEN <<>>
  ELSE LET first == CHOOSE i \in DOMAIN bits :
                      bits[i] = 1 /\ \A j \in 1..(i - 1) : bits[j] = 0
       IN  SubSeq(bits, first, Len(bits))

\* bits + 1; a carry out of the top gives one more bit
Increment(bits) ==
  IF \A i \in DOMAIN bits : bits[i] = 1 THEN <<1>> \o [i \in DOMAIN bits |-> 0]
  ELSE LET z == CHOOSE i \in DOMAIN bits :
                  bits[i] = 0 /\ \A j \in (i + 1)..Len(bits) : bits[j] = 1
       IN  [i \in DOMAIN bits |-> IF i < z THEN bits[i] ELSE IF i = z THEN 1 ELSE 0]

\* Round the integer bits * 2^e (no leading zero) to 53 significant bits;
\* sticky tells that the exact value has non-zero bits below bits
RoundToFloat(bits, e, sticky) ==
  IF Len(bits) <= MantBits
  THEN [m |-> bits \o [i \in 1..(MantBits - Len(bits)) |-> 0],
        e |-> e - (MantBits - Len(bits))]
  ELSE LET drop  == Len(bits) - MantBits
           keep  == SubSeq(bits, 1, MantBits)
           guard == bits[MantBits + 1]
           rest  == sticky \/ \E i \in (MantBits + 2)..Len(bits) : bits[i] = 1
           up    == guard = 1 /\ (rest \/ keep[MantBits] = 1)
           inc   == Increment(keep)
       IN  IF ~up THEN [m |-> keep, e |-> e + drop]
           ELSE IF Len(inc) > MantBits
                THEN [m |-> SubSeq(inc, 1, MantBits), e |-> e + drop + 1]
                ELSE [m |-> inc, e |-> e + drop]

\* A bit string as limbs, least significant limb first
ToLimbs(bits) ==
  [k \in 1..((Len(bits) + LimbBits - 1) \div LimbBits) |->
     LET first == Len(bits) - k * LimbBits + 1
     IN  BitsToInt(SubSeq(bits, IF first < 1 THEN 1 ELSE first,
                          Len(bits) - (k - 1) * LimbBits))]

\* Limbs, least significant first, as a bit string
FromLimbs(limbs) ==
  [i \in 1..(LimbBits * Len(limbs)) |->
     LET k == Len(limbs) - ((i - 1) \div LimbBits)
         j == LimbBits - 1 - ((i - 1) % LimbBits)
     IN  (limbs[k] \div 2^j) % 2]

\* The next k limbs of the binary expansion of r / d, for 0 <= r < d < 2^18
RECURSIVE Quotient(_, _, _)
Quotient(r, d, k) ==
  IF k = 0 THEN [limbs |-> <<>>, sticky |-> r # 0]
  ELSE LET q == Quotient((r * LimbBase) % d, d, k - 1)
       IN  [limbs |-> q.limbs \o <<(r * LimbBase) \div d>>, sticky |-> q.sticky]

\* The float a / b of two positive integers
RECURSIVE FloatDivFrom(_, _, _)
FloatDivFrom(a, b, e) ==
  IF a >= 2 * b THEN FloatDivFrom(a, 2 * b, e + 1)
  ELSE IF a < b THEN FloatDivFrom(2 * a, b, e - 1)
  ELSE LET q == Quotient(a - b, b, 5)
       IN  RoundToFloat(<<1>> \o FromLimbs(q.limbs), e - 5 * LimbBits, q.sticky)

FloatDiv(a, b) == FloatDivFrom(a, b, 0)

\* float(a) of a positive integer
FromInt(a) == FloatDiv(a, 1)

\* Sum of the limb products x[i] * y[k - i]
RECURSIVE SumTo(_, _, _, _)
SumTo(x, y, k, i) ==
  IF i > Len(x) THEN 0
  ELSE (IF k - i >= 1 /\ k - i <= Len(y) THEN x[i] * y[k - i] ELSE 0) + SumTo(x, y, k, i + 1)

RECURSIVE Carry(_, _, _)
Carry(cols, i, c) ==
  IF i > Len(cols) THEN (IF c = 0 THEN <<>> ELSE <<c>>)
  ELSE <<(cols[i] + c) % LimbBase>> \o Carry(cols, i + 1, (cols[i] + c) \div LimbBase)

\* Product of two bit strings
MulBits(a, b) ==
  LET x == ToLimbs(a)
      y == ToLimbs(b)
      cols == [k \in 1..(Len(x) + Len(y) - 1) |-> SumTo(x, y, k + 1, 1)]
  IN  StripZeros(FromLimbs(Carry(cols, 1, 0)))

\* x * y
FloatMul(x, y) == RoundToFloat(MulBits(x.m, y.m), x.e + y.e, FALSE)

\* int(x) for 0 < x < 2^31: the bits above the binary point
FloatToInt(x) ==
  IF x.e >= 0 THEN BitsToInt(x.m) * 2^(x.e)
  ELSE IF -x.e >= MantBits THEN 0
  ELSE LET l == ToLimbs(SubSeq(x.m, 1, MantBits + x.e))
       IN  l[1] + (IF Len(l) >= 2 THEN l[2] * LimbBase ELSE 0)
                + (IF Len(l) >= 3 THEN l[3] * LimbBase * LimbBase ELSE 0)

(***************************************************************************)
(* Tables (main.py 7-38)                                                   *)
(***************************************************************************)
NoteNames ==
  { <<"C">>, <<"C","#">>, <<"D","b">>, <<"D">>, <<"D","#">>, <<"E","b">>,
    <<"E">>, <<"F">>, <<"F","#">>, <<"G","b">>, <<"G">>, <<"G","#">>,
    <<"A","b">>, <<"A">>, <<"A","#">>, <<"B","b">>, <<"B">>, <<"R">> }

NOTE_FREQS ==
  [nm \in NoteNames |->
     CASE nm = <<"C">>     -> 26163
       [] nm = <<"C","#">> -> 27718
       [] nm = <<"D","b">> -> 27718
       [] nm = <<"D">>     -> 29366
       [] nm = <<"D","#">> -> 31113
       [] nm = <<"E","b">> -> 31113
       [] nm = <<"E">>     -> 32963
       [] nm = <<"F">>     -> 34923
       [] nm = <<"F","#">> -> 36999
       [] nm = <<"G","b">> -> 36999
       [] nm = <<"G">>     -> 39200
       [] nm = <<"G","#">> -> 41530
       [] nm = <<"A","b">> -> 41530
       [] nm = <<"A">>     -> 44000
       [] nm = <<"A","#">> -> 46616
       [] nm = <<"B","b">> -> 46616
       [] nm = <<"B">>     -> 49388
       [] nm = <<"R">>     -> 0]

\* The keys of TEMPO_BASE in insertion order
TempoKeys == << <<"w">>, <<"h">>, <<"q">>, <<"d","q">>, <<"e">>, <<"s">>, <<"t">> >>

\* Beats per symbol, as the floats the literals 4.0, 2.0, 1.0, 1.5, 0.5, 0.25
\* and the quotient 1/3 evaluate to
TEMPO_BASE ==
  [k \in Range(TempoKeys) |->
     CASE k = <<"w">>     -> FromInt(4)
       [] k = <<"h">>     -> FromInt(2)
       [] k = <<"q">>     -> FromInt(1)
       [] k = <<"d","q">> -> FloatDiv(3, 2)
       [] k = <<"e">>     -> FloatDiv(1, 2)
       [] k = <<"s">>     -> FloatDiv(1, 4)
       [] k = <<"t">>     -> FloatDiv(1, 3)]

FS == 44100

DefaultBpm == 120

DefaultVolume == 50

FadeMs == 20

(***************************************************************************)
(* Token parser (main.py 72-103)                                           *)
(***************************************************************************)
\* The characters str.strip() removes: those str.isspace() holds of.  The
\* ones without a string escape here are written as their Python escapes.
Whitespace ==
  {" ", "\t", "\n", "\r", "\f", "\\x0b", "\\x1c", "\\x1d", "\\x1e", "\\x1f",
   "\\x85", "\\xa0", "\\u1680", "\\u2000", "\\u2001", "\\u2002", "\\u2003",
   "\\u2004", "\\u2005", "\\u2006", "\\u2007", "\\u2008", "\\u2009", "\\u200a",
   "\\u2028", "\\u2029", "\\u202f", "\\u205f", "\\u3000"}

RECURSIVE LStrip(_)
LStrip(s) == IF s # <<>> /\ Head(s) \in Whitespace THEN LStrip(Tail(s)) ELSE s

RECURSIVE RStrip(_)
RStrip(s) ==
  IF s # <<>> /\ s[Len(s)] \in Whitespace THEN RStrip(SubSeq(s, 1, Len(s) - 1)) ELSE s

\* str.strip()
Strip(s) == RStrip(LStrip(s))

\* str.endswith(d)
EndsWith(s, d) == Len(d) <= Len(s) /\ SubSeq(s, Len(s) - Len(d) + 1, Len(s)) = d

\* str.startswith(d)
StartsWith(s, d) == Len(d) <= Len(s) /\ SubSeq(s, 1, Len(d)) = d

\* sorted(keys, key=lambda x: -len(x)): a stable sort by descending length
RECURSIVE InsertByLen(_, _)
InsertByLen(sorted, k) ==
  IF sorted = <<>> THEN <<k>>
  ELSE IF Len(Head(sorted)) >= Len(k) THEN <<Head(sorted)>> \o InsertByLen(Tail(sorted), k)
  ELSE <<k>> \o sorted

RECURSIVE SortedByLenDesc(_)
SortedByLenDesc(keys) ==
  IF keys = <<>> THEN <<>>
  ELSE InsertByLen(SortedByLenDesc(SubSeq(keys, 1, Len(keys) - 1)), keys[Len(keys)])

\* The keys tried in dictionary order, without the sort by length
DurationOrderUnsorted == TempoKeys

DurationOrder == SortedByLenDesc(TempoKeys)

\* Lines 74-83: the first key of ds that is a suffix of the token, else 'q'
RECURSIVE FindDuration(_, _)
FindDuration(token, ds) ==
  IF ds = <<>> THEN [duration |-> <<"q">>, notes_part |-> token]
  ELSE IF EndsWith(token, Head(ds))
       THEN [duration |-> Head(ds),
             notes_part |-> SubSeq(token, 1, Len(token) - Len(Head(ds)))]
       ELSE FindDuration(token, Tail(ds))

SplitDuration(token) == FindDuration(Strip(token), DurationOrder)

Accidentals == {"#", "b"}

\* The scan without the look-ahead for an accidental
RECURSIVE ScanChordNaturals(_, _)
ScanChordNaturals(notes_str, i) ==
  IF i > Len(notes_str) THEN <<>>
  ELSE <<SubSeq(notes_str, i, i)>> \o ScanChordNaturals(notes_str, i + 1)

\* Lines 88-95: the while loop over notes_str, i is the 1-based position
RECURSIVE ScanChord(_, _)
ScanChord(notes_str, i) ==
  IF i > Len(notes_str) THEN <<>>
  ELSE IF i + 1 <= Len(notes_str) /\ notes_str[i + 1] \in Accidentals
       THEN <<SubSeq(notes_str, i, i + 1)>> \o ScanChord(notes_str, i + 2)
       ELSE <<SubSeq(notes_str, i, i)>> \o ScanChord(notes_str, i + 1)

\* Lines 85-102
ParseNotes(notes_part) ==
  IF StartsWith(notes_part, <<"[">>) /\ EndsWith(notes_part, <<"]">>)
  THEN ScanChord(Slice(notes_part, 1, Len(notes_part) - 1), 1)
  ELSE IF Len(notes_part) = 0 THEN << <<"R">> >>
  ELSE IF Len(notes_part) > 1 /\ notes_part[2] \in Accidentals
       THEN << SubSeq(notes_part, 1, 2) >>
  ELSE << notes_part >>

parse_note_token(token) ==
  LET sp == SplitDuration(token)
  IN  [notes |-> ParseNotes(sp.notes_part), duration |-> sp.duration]

(***************************************************************************)
(* Tempo table (main.py 29-35)                                             *)
(***************************************************************************)
\* factor = 60 / bpm; {k: v * factor}
adjust_tempo(bpm) ==
  LET factor == FloatDiv(60, bpm)
  IN  [k \in DOMAIN TEMPO_BASE |-> FloatMul(TEMPO_BASE[k], factor)]

\* int(FS * duration), lines 42 and 43
SampleCount(duration) == FloatToInt(FloatMul(FromInt(FS), duration))

(***************************************************************************)
(* Mixer on int16 samples (main.py 56-66)                                  *)
(***************************************************************************)
INT16_MIN == -32768

INT16_MAX == 32767

\* ndarray.astype(np.int16) of an integer: keeps the low 16 bits
ToInt16(x) == ((x + 32768) % 65536) - 32768

\* np.clip(x, lo, hi)
Clip(x, lo, hi) == IF x < lo THEN lo ELSE IF x > hi THEN hi ELSE x

RECURSIVE MaxLenOf(_)
MaxLenOf(segments) ==
  IF Len(segments) = 1 THEN Len(segments[1])
  ELSE Max(Len(Head(segments)), MaxLenOf(Tail(segments)))

\* mix[:len(seg)] += seg.astype(np.int32)
AddSegment(mix, seg) ==
  [i \in DOMAIN mix |-> IF i <= Len(seg) THEN mix[i] + seg[i] ELSE mix[i]]

\* for seg in segments: the accumulation in list order
RECURSIVE Accumulate(_, _)
Accumulate(mix, segments) ==
  IF segments = <<>> THEN mix
  ELSE Accumulate(AddSegment(mix, Head(segments)), Tail(segments))

\* The mix narrowed to int16 without np.clip
mix_audio_segments_unclipped(segments) ==
  IF segments = <<>> THEN <<>>
  ELSE LET max_len == MaxLenOf(segments)
           zeros   == [i \in 1..max_len |-> 0]
           mix     == Accumulate(zeros, segments)
       IN  [i \in 1..max_len |-> ToInt16(mix[i])]

mix_audio_segments(segments) ==
  IF segments = <<>> THEN <<>>
  ELSE LET max_len == MaxLenOf(segments)
           zeros   == [i \in 1..max_len |-> 0]
           mix     == Accumulate(zeros, segments)
       IN  [i \in 1..max_len |-> ToInt16(Clip(mix[i], INT16_MIN, INT16_MAX))]

(***************************************************************************)
(* Tone synthesizer (main.py 40-54, 105-110)                               *)
(***************************************************************************)
\* An int16 array from the synthesizer: n samples of a sine of the given
\* frequency and volume, faded over the index ranges fade_in and fade_out
\* (<<first, last>>, 1-based; <<>> when no fade is applied).
\* np.zeros(n) is the array with freq = 0.
Zeros(n) == [n |-> n, freq |-> 0, vol |-> 0, fade_in |-> <<>>, fade_out |-> <<>>]

NoAudio == Zeros(0)

Returned(a) == [ok |-> TRUE, err |-> "none", audio |-> a]

Raised(e) == [ok |-> FALSE, err |-> e, audio |-> NoAudio]

\* Shape of a op b for one-dimensional operands of a and b elements
\* (numpy broadcasting), -1 when the shapes do not broadcast
BroadcastShape(a, b) ==
  IF a = b THEN a ELSE IF a = 1 THEN b ELSE IF b = 1 THEN a ELSE -1

\* audio[slice] = value: a value of v elements goes into a slice of s elements
AssignFits(s, v) == v = s \/ v = 1

sine_wave(frequency, duration, volume) ==
  LET n == SampleCount(duration)
      fade_samples == (FadeMs * FS) \div 1000
      head_len == Min(n, fade_samples)       \* len(audio[:fade_samples])
      tail_len == Min(n, fade_samples)       \* len(audio[-fade_samples:])
      in_shape  == BroadcastShape(head_len, fade_samples)
      out_shape == BroadcastShape(tail_len, fade_samples)
  IN  IF frequency = 0 THEN Returned(Zeros(n))
      ELSE IF in_shape = -1 \/ ~AssignFits(head_len, in_shape)
           THEN Raised("ValueError: broadcast (fade in)")
      ELSE IF out_shape = -1 \/ ~AssignFits(tail_len, out_shape)
           THEN Raised("ValueError: broadcast (fade out)")
      ELSE Returned([n |-> n, freq |-> frequency, vol |-> volume,
                     fade_in  |-> <<1, head_len>>,
                     fade_out |-> <<n - tail_len + 1, n>>])

generate_note_audio(note, duration_sec, volume) ==
  IF note \notin DOMAIN NOTE_FREQS THEN Raised("ValueError: Unknown note")
  ELSE sine_wave(NOTE_FREQS[note], duration_sec, volume)

(***************************************************************************)
(* Mixer and concatenation on synthesized arrays (main.py 56-66, 128-130)  *)
(***************************************************************************)
RECURSIVE MaxSamples(_)
MaxSamples(segments) ==
  IF Len(segments) = 1 THEN segments[1].n
  ELSE Max(Head(segments).n, MaxSamples(Tail(segments)))

\* The sounding tones of a list of arrays; zeros add nothing to a sum
RECURSIVE Sounding(_)
Sounding(segments) ==
  IF segments = <<>> THEN EmptyBag
  ELSE (IF Head(segments).freq = 0 THEN EmptyBag ELSE SetToBag({Head(segments)}))
       (+) Sounding(Tail(segments))

\* mix_audio_segments applied to the arrays of one chord: every array starts
\* at index 0 of the mix, the result has max_len samples
mix_tones(segments) ==
  IF segments = <<>> THEN [n |-> 0, parts |-> EmptyBag]
  ELSE [n |-> MaxSamples(segments), parts |-> Sounding(segments)]

\* The segments joined last to first
concatenate_reversed(segments) ==
  LET kept == SelectSeq(segments, LAMBDA seg : seg.n > 0)
  IN  [k \in 1..Len(kept) |-> kept[Len(kept) + 1 - k]]

\* np.concatenate(segments): an array of no samples takes no place
concatenate(segments) == SelectSeq(segments, LAMBDA seg : seg.n > 0)

RECURSIVE SongLen(_)
SongLen(song) == IF song = <<>> THEN 0 ELSE Head(song).n + SongLen(Tail(song))

\* Lines 122-125: the notes of one token are synthesized in order, the first
\* exception leaves the loop
RECURSIVE GenerateChord(_, _, _, _)
GenerateChord(notes, duration_sec, volume, chord_segments) ==
  IF notes = <<>> THEN [ok |-> TRUE, err |-> "none", chord_segments |-> chord_segments]
  ELSE LET seg == generate_note_audio(Head(notes), duration_sec, volume)
       IN  IF ~seg.ok
           THEN [ok |-> FALSE, err |-> seg.err, chord_segments |-> <<>>]
           ELSE GenerateChord(Tail(notes), duration_sec, volume,
                              Append(chord_segments, seg.audio))

\* Lines 117-127: the body of the loop for one token, given the value of the
\* global TEMPO that line 118 reads
ProcessToken(tempo, token, volume) ==
  LET p == parse_note_token(token)
      none == [n |-> 0, parts |-> EmptyBag]
  IN  IF p.duration \notin DOMAIN tempo
      THEN [kind |-> "skip", err |-> "none", combined |-> none,
            diag |-> <<"Unknown duration", p.duration, token>>]
      ELSE LET g == GenerateChord(p.notes, tempo[p.duration], volume, <<>>)
           IN  IF ~g.ok
               THEN [kind |-> "raise", err |-> g.err, combined |-> none, diag |-> <<>>]
               ELSE [kind |-> "append", err |-> "none",
                     combined |-> mix_tones(g.chord_segments), diag |-> <<>>]

\* play_song run without interruption: the loop from token i on, then
\* lines 128-132.  plays tells whether play_audio_np is called.
RECURSIVE RunLoop(_, _, _, _, _)
RunLoop(tempo, tokens, volume, i, segments) ==
  IF i > Len(tokens)
  THEN [ok |-> TRUE, err |-> "none", song |-> concatenate(segments),
        segments |-> segments, plays |-> segments # <<>>]
  ELSE LET step == ProcessToken(tempo, tokens[i], volume)
       IN  IF step.kind = "skip" THEN RunLoop(tempo, tokens, volume, i + 1, segments)
           ELSE IF step.kind = "raise"
           THEN [ok |-> FALSE, err |-> step.err, song |-> <<>>, segments |-> <<>>,
                 plays |-> FALSE]
           ELSE RunLoop(tempo, tokens, volume, i + 1, Append(segments, step.combined))

play_song(tokens, bpm, volume) == RunLoop(adjust_tempo(bpm), tokens, volume, 1, <<>>)

(***************************************************************************)
(* Inputs of the model                                                     *)
(***************************************************************************)
MaxTokens == 2

Cq == <<"C", "q">>

Cx == <<"C", "x">>

Hq == <<"H", "q">>

CEs == <<"[", "C", "E", "]", "s">>

Rs == <<"s">>

TokenPool == {Cq, Cx, Hq, CEs, Rs}

TokenLists == UNION {[1..k -> TokenPool] : k \in 0..MaxTokens}

\* Tempos of the calls: the default, and one at which a sixteenth has fewer
\* samples than the fade
BpmValues == {120, 3000}

\* Volumes of the calls, in percent
VolumeValues == {50, 150}

\* The thread of the Tk main loop and a second thread of the host
GuiThread == "main"

HostThread == "worker"

Threads == {GuiThread, HostThread}

\* What the second thread renders while the first one is at work, and its
\* tempo: a quarter of 882 samples
HostSongs == {<<Cq>>}

HostBpm == 3000

(***************************************************************************)
(* State                                                                   *)
(***************************************************************************)
VARIABLES
  TEMPO,        \* the module global TEMPO
  call,         \* per thread: the activation of a handler and of play_song
  played,       \* arrays handed to sa.play_buffer, in order
  files,        \* arrays written by export_song, in order
  dialogs,      \* messagebox.showerror / showinfo texts, in order
  console,      \* lines printed by play_song
  self_bpm,     \* MusicPlayerGUI.bpm
  self_volume,  \* MusicPlayerGUI.volume
  phase,        \* "in" / "out": position of the function under test
  arg,          \* its argument
  ret           \* its result

vars == <<TEMPO, call, played, files, dialogs, console, self_bpm, self_volume,
          phase, arg, ret>>

progvars == <<TEMPO, call, played, files, dialogs, console, self_bpm, self_volume>>

Idle ==
  [pc |-> "idle", origin |-> "none", tokens |-> <<>>, bpm |-> DefaultBpm,
   volume |-> DefaultVolume, entered |-> FALSE, i |-> 1, segments |-> <<>>,
   returned |-> FALSE, song |-> <<>>, err |-> "none"]

ProgInit ==
  /\ TEMPO = adjust_tempo(DefaultBpm)
  /\ call = [t \in Threads |-> Idle]
  /\ played = <<>>
  /\ files = <<>>
  /\ dialogs = <<>>
  /\ console = <<>>
  /\ self_bpm = DefaultBpm
  /\ self_volume = DefaultVolume

Init ==
  /\ ProgInit
  /\ phase = "unused"
  /\ arg = <<>>
  /\ ret = <<>>

(***************************************************************************)
(* play_song (main.py 112-132)                                             *)
(***************************************************************************)
Enter(origin, tokens, bpm, volume) ==
  [Idle EXCEPT !.pc = "line114", !.origin = origin, !.tokens = tokens,
               !.bpm = bpm, !.volume = volume, !.entered = TRUE]

\* A caller other than the GUI calls play_song(tokens, bpm, volume)
CallPlaySong(t, tokens, bpm, volume) ==
  /\ call[t].pc = "idle"
  /\ call' = [call EXCEPT ![t] = Enter("play_song", tokens, bpm, volume)]
  /\ UNCHANGED <<TEMPO, played, files, dialogs, console, self_bpm, self_volume,
                 phase, arg, ret>>

\* Line 114: TEMPO = adjust_tempo(bpm)
SetTempo(t) ==
  /\ call[t].pc = "line114"
  /\ TEMPO' = adjust_tempo(call[t].bpm)
  /\ call' = [call EXCEPT ![t].pc = "line116"]
  /\ UNCHANGED <<played, files, dialogs, console, self_bpm, self_volume,
                 phase, arg, ret>>

\* An exception leaves play_song; the handlers of the GUI catch it and show it
RaiseFrom(c, e) == [c EXCEPT !.pc = "done", !.err = e]

IsGui(c) == c.origin \in {"Play", "Export WAV"}

\* Lines 116-127: one iteration of the loop over the tokens
NextToken(t) ==
  LET c == call[t]
      token == c.tokens[c.i]
      step == ProcessToken(TEMPO, token, c.volume)
  IN  /\ c.pc = "line116"
      /\ c.i <= Len(c.tokens)
      /\ IF step.kind = "skip"
         THEN /\ console' = Append(console, step.diag)
              /\ call' = [call EXCEPT ![t].i = c.i + 1]
              /\ UNCHANGED dialogs
         ELSE IF step.kind = "raise"
         THEN /\ call' = [call EXCEPT ![t] = RaiseFrom(c, step.err)]
              /\ dialogs' = IF IsGui(c) THEN Append(dialogs, step.err) ELSE dialogs
              /\ UNCHANGED console
         ELSE /\ call' = [call EXCEPT ![t].segments = Append(c.segments, step.combined),
                                      ![t].i = c.i + 1]
              /\ UNCHANGED <<console, dialogs>>
      /\ UNCHANGED <<TEMPO, played, files, self_bpm, self_volume, phase, arg, ret>>

\* Where play_song returns to: export_wav goes on with export_song
AfterReturn(c) == IF c.origin = "Export WAV" THEN "line199" ELSE "done"

\* Lines 128-131 and 69: without segments the empty array is returned;
\* otherwise the song is concatenated and handed to sa.play_buffer, and the
\* call waits in play_obj.wait_done()
EndLoop(t) ==
  LET c == call[t]
      song == concatenate(c.segments)
  IN  /\ c.pc = "line116"
      /\ c.i > Len(c.tokens)
      /\ IF c.segments = <<>>
         THEN /\ call' = [call EXCEPT ![t].pc = AfterReturn(c), ![t].returned = TRUE,
                                      ![t].song = <<>>]
              /\ UNCHANGED played
         ELSE /\ played' = Append(played, [by |-> t, audio |-> song])
              /\ call' = [call EXCEPT ![t].pc = "line70", ![t].song = song]
      /\ UNCHANGED <<TEMPO, files, dialogs, console, self_bpm, self_volume,
                     phase, arg, ret>>

\* Lines 70 and 132: wait_done() ends and play_song returns the song
Return(t) ==
  LET c == call[t]
  IN  /\ c.pc = "line70"
      /\ call' = [call EXCEPT ![t].pc = AfterReturn(c), ![t].returned = TRUE]
      /\ UNCHANGED <<TEMPO, played, files, dialogs, console, self_bpm, self_volume,
                     phase, arg, ret>>

(***************************************************************************)
(* GUI handlers (main.py 134-148, 178-201)                                 *)
(***************************************************************************)
\* MusicPlayerGUI.play_song, up to the call of play_song
PlayClick(tokens, bpm, volume) ==
  LET t == GuiThread IN
  /\ call[t].pc = "idle"
  /\ IF ~(0 <= volume /\ volume <= 100)
     THEN /\ call' = [call EXCEPT ![t] =
                        [Idle EXCEPT !.pc = "done", !.origin = "Play", !.tokens = tokens,
                                     !.bpm = bpm, !.volume = volume,
                                     !.err = "ValueError: Volume must be between 0 and 1"]]
          /\ dialogs' = Append(dialogs, "ValueError: Volume must be between 0 and 1")
          /\ UNCHANGED <<self_bpm, self_volume>>
     ELSE /\ self_bpm' = bpm
          /\ self_volume' = volume
          /\ call' = [call EXCEPT ![t] = Enter("Play", tokens, bpm, volume)]
          /\ UNCHANGED dialogs
  /\ UNCHANGED <<TEMPO, played, files, console, phase, arg, ret>>

\* MusicPlayerGUI.export_wav, up to the call of play_song
ExportClick(tokens, bpm, volume) ==
  LET t == GuiThread IN
  /\ call[t].pc = "idle"
  /\ call' = [call EXCEPT ![t] = Enter("Export WAV", tokens, bpm, volume)]
  /\ UNCHANGED <<TEMPO, played, files, dialogs, console, self_bpm, self_volume,
                 phase, arg, ret>>

\* export_song(audio_np): the save dialog gives a file name or nothing
ExportSong(t, chosen) ==
  LET c == call[t] IN
  /\ c.pc = "line199"
  /\ IF chosen
     THEN /\ files' = Append(files, [by |-> t, audio |-> c.song])
          /\ dialogs' = Append(dialogs, "Export Complete")
     ELSE UNCHANGED <<files, dialogs>>
  /\ call' = [call EXCEPT ![t].pc = "done"]
  /\ UNCHANGED <<TEMPO, played, console, self_bpm, self_volume, phase, arg, ret>>

\* A thread starts a call or a handler when it runs none
Next ==
  \/ /\ call[GuiThread].pc = "idle"
     /\ \E tokens \in TokenLists, bpm \in BpmValues, volume \in VolumeValues :
          CallPlaySong(GuiThread, tokens, bpm, volume)
  \/ /\ call[HostThread].pc = "idle"
     /\ \E tokens \in HostSongs :
          CallPlaySong(HostThread, tokens, HostBpm, DefaultVolume)
  \/ /\ call[GuiThread].pc = "idle"
     /\ \E tokens \in TokenLists, bpm \in BpmValues, volume \in VolumeValues :
          PlayClick(tokens, bpm, volume)
  \/ /\ call[GuiThread].pc = "idle"
     /\ \E tokens \in TokenLists, bpm \in BpmValues, volume \in VolumeValues :
          ExportClick(tokens, bpm, volume)
  \/ \E t \in Threads : SetTempo(t)
  \/ \E t \in Threads : NextToken(t)
  \/ \E t \in Threads : EndLoop(t)
  \/ \E t \in Threads : Return(t)
  \/ \E t \in Threads, chosen \in BOOLEAN : ExportSong(t, chosen)

Spec == Init /\ [][Next]_vars

(***************************************************************************)
(* The parser applied to one token                                         *)
(***************************************************************************)
MaxChord == 2

MaxRaw == 3

\* ''.join(names)
RECURSIVE Join(_)
Join(names) == IF names = <<>> THEN <<>> ELSE Head(names) \o Join(Tail(names))

ChordLists == UNION {[1..k -> NoteNames] : k \in 1..MaxChord}

RawAlphabet == {"C", "#", "[", "]", "d", "q", "x", " ", "\t"}

RawTokens == UNION {[1..k -> RawAlphabet] : k \in 0..MaxRaw}

\* Tokens together with the way they were put together
ParseInputs ==
  {[kind |-> "note", token |-> nm \o d, portion |-> nm, names |-> <<nm>>, duration |-> d] :
      nm \in NoteNames, d \in Range(TempoKeys)}
  \cup
  {[kind |-> "rest", token |-> d, portion |-> <<>>, names |-> <<>>, duration |-> d] :
      d \in Range(TempoKeys)}
  \cup
  {[kind |-> "chord", token |-> <<"[">> \o Join(names) \o <<"]">> \o d,
    portion |-> <<"[">> \o Join(names) \o <<"]">>, names |-> names, duration |-> d] :
      names \in ChordLists, d \in Range(TempoKeys)}
  \cup
  {[kind |-> "raw", token |-> raw, portion |-> <<>>, names |-> <<>>, duration |-> <<>>] :
      raw \in RawTokens}

InitParse ==
  /\ ProgInit
  /\ phase = "in"
  /\ arg \in ParseInputs
  /\ ret = <<>>

\* parse_note_token(token); the local notes_part is kept with the result
ParseToken ==
  /\ phase = "in"
  /\ phase' = "out"
  /\ ret' = [notes |-> parse_note_token(arg.token).notes,
             duration |-> parse_note_token(arg.token).duration,
             notes_part |-> SplitDuration(arg.token).notes_part]
  /\ UNCHANGED <<arg, progvars>>

NextParse == ParseToken

SpecParse == InitParse /\ [][NextParse]_vars

(***************************************************************************)
(* The mixer applied to a list of sample buffers                           *)
(***************************************************************************)
MaxSegments == 3

MaxSegLen == 2

SampleValues == {-32768, 20000}

Buffers == UNION {[1..n -> SampleValues] : n \in 0..MaxSegLen}

BufferLists == UNION {[1..k -> Buffers] : k \in 0..MaxSegments}

InitMix ==
  /\ ProgInit
  /\ phase = "in"
  /\ arg \in BufferLists
  /\ ret = <<>>

MixSegments ==
  /\ phase = "in"
  /\ phase' = "out"
  /\ ret' = mix_audio_segments(arg)
  /\ UNCHANGED <<arg, progvars>>

NextMix == MixSegments

SpecMix == InitMix /\ [][NextMix]_vars

(***************************************************************************)
(* The synthesizer and the sequencer applied to one note                   *)
(***************************************************************************)
SynthBpm == {60, 100, 120, 130, 750, 3000}

SynthInputs ==
  [note : NoteNames \cup {<<>>}, symbol : Range(TempoKeys), bpm : SynthBpm,
   volume : VolumeValues]

InitSynth ==
  /\ ProgInit
  /\ phase = "in"
  /\ arg \in SynthInputs
  /\ ret = <<>>

\* generate_note_audio(note, TEMPO[symbol], volume) after adjust_tempo(bpm)
Synthesize ==
  /\ phase = "in"
  /\ phase' = "tone"
  /\ ret' = generate_note_audio(IF arg.note = <<>> THEN <<"R">> ELSE arg.note,
                                adjust_tempo(arg.bpm)[arg.symbol], arg.volume)
  /\ UNCHANGED <<arg, progvars>>

\* play_song([note + symbol], bpm, volume), run to its end by the main thread
RenderToken ==
  /\ phase = "in"
  /\ phase' = "song"
  /\ ret' = play_song(<<arg.note \o arg.symbol>>, arg.bpm, arg.volume)
  /\ TEMPO' = adjust_tempo(arg.bpm)
  /\ played' = IF ret'.plays
               THEN Append(played, [by |-> GuiThread, audio |-> ret'.song])
               ELSE played
  /\ UNCHANGED <<arg, call, files, dialogs, console, self_bpm, self_volume>>

NextSynth == Synthesize \/ RenderToken

SpecSynth == InitSynth /\ [][NextSynth]_vars

(***************************************************************************)
(* Properties                                                              *)
(***************************************************************************)
DurationLetters == {"w", "h", "q", "e", "s", "t"}

\* A note name followed by a letter that is no duration symbol, as 'Cx'
HasUnknownDuration(token) ==
  \E nm \in NoteNames :
    /\ Len(token) = Len(nm) + 1
    /\ SubSeq(token, 1, Len(nm)) = nm
    /\ token[Len(token)] \notin DurationLetters \cup Accidentals \cup Whitespace

ParsesToUnknownNote(token) ==
  \E i \in DOMAIN parse_note_token(token).notes :
    parse_note_token(token).notes[i] \notin DOMAIN NOTE_FREQS

PlayedBy(t) == \E i \in DOMAIN played : played[i].by = t

WrittenBy(t) == \E i \in DOMAIN files : files[i].by = t

\* C1: when one token among several carries an unknown duration symbol, the
\* call does not fail, that token alone is dropped and the result is the
\* buffer of the remaining tokens.
C1_UnknownDurationSkipped ==
  \A t \in Threads :
    LET c == call[t]
        rest == SelectSeq(c.tokens, LAMBDA tk : ~HasUnknownDuration(tk))
    IN  ( /\ c.pc = "done"
          /\ c.entered
          /\ Len(c.tokens) >= 2
          /\ Len(rest) = Len(c.tokens) - 1
          /\ \A k \in DOMAIN rest : ~ParsesToUnknownNote(rest[k]) )
        => /\ c.err = "none"
           /\ c.returned
           /\ c.song = play_song(rest, c.bpm, c.volume).song

\* C2: a call whose token sequence holds a token that parses to a note name
\* without entry in NOTE_FREQS fails with the unknown-note error, returns no
\* buffer and requests no playback, wherever the token stands.
C2_UnknownNoteFails ==
  \A t \in Threads :
    LET c == call[t]
    IN  ( /\ c.pc = "done"
          /\ c.entered
          /\ \E k \in DOMAIN c.tokens : ParsesToUnknownNote(c.tokens[k]) )
        => /\ c.err = "ValueError: Unknown note"
           /\ ~c.returned
           /\ ~PlayedBy(t)

\* C3: on the Play and on the Export WAV path a volume outside [0,1] is
\* rejected before rendering: play_song is not called, nothing is played and
\* no file is written.
C3_VolumeValidated ==
  \A t \in Threads :
    LET c == call[t]
    IN  (IsGui(c) /\ ~(0 <= c.volume /\ c.volume <= 100))
        => /\ ~c.entered
           /\ ~PlayedBy(t)
           /\ ~WrittenBy(t)

\* C4: whatever the interleaving of two calls, each call returns the buffer
\* it returns when it runs alone with its own bpm.
C4_CallsIndependent ==
  \A t \in Threads :
    LET c == call[t]
    IN  c.returned => c.song = play_song(c.tokens, c.bpm, c.volume).song

\* C5: a token made of a notes portion (note name, nothing, or bracketed
\* chord) and a valid duration symbol parses to exactly that symbol and that
\* notes portion; a token without duration suffix gets duration 'q' and is
\* its own notes portion.
C5_DurationRecovered ==
  phase = "out" =>
    /\ arg.kind \in {"note", "rest", "chord"}
         => ret.duration = arg.duration /\ ret.notes_part = arg.portion
    /\ ( /\ \A i \in DOMAIN arg.token : arg.token[i] \notin Whitespace
         /\ \A d \in Range(TempoKeys) :
              \/ Len(d) > Len(arg.token)
              \/ SubSeq(arg.token, Len(arg.token) - Len(d) + 1, Len(arg.token)) # d )
         => ret.duration = <<"q">> /\ ret.notes_part = arg.token

C5_Witness ==
  /\ phase = "out"
  /\ arg.kind = "note"
  /\ arg.token = <<"E", "b", "d", "q">>
  /\ ret.duration = <<"d", "q">>
  /\ ret.notes_part = <<"E", "b">>

\* C6: '[' + the concatenation of a non-empty sequence of note names + ']' +
\* a valid duration symbol parses to that sequence, in order, and to that
\* duration.
C6_ChordRoundTrip ==
  (phase = "out" /\ arg.kind = "chord")
    => ret.notes = arg.names /\ ret.duration = arg.duration

C6_Witness ==
  /\ phase = "out"
  /\ arg.kind = "chord"
  /\ arg.names = << <<"C", "#">>, <<"E", "b">> >>
  /\ arg.duration = <<"q">>
  /\ ret.notes = << <<"C", "#">>, <<"E", "b">> >>

\* Exact beat counts of the duration symbols, <<numerator, denominator>>
BeatCount ==
  [k \in Range(TempoKeys) |->
     CASE k = <<"w">>     -> <<4, 1>>
       [] k = <<"h">>     -> <<2, 1>>
       [] k = <<"q">>     -> <<1, 1>>
       [] k = <<"d","q">> -> <<3, 2>>
       [] k = <<"e">>     -> <<1, 2>>
       [] k = <<"s">>     -> <<1, 4>>
       [] k = <<"t">>     -> <<1, 3>>]

\* n is an integer nearest to num / den
IsNearest(n, num, den) ==
  LET diff == IF n * den >= num THEN n * den - num ELSE num - n * den
  IN  2 * diff <= den

\* C7: the buffer of a single token of a valid note or rest and a valid
\* duration symbol has round(44100 * beatCount * 60 / bpm) samples, all zero
\* for a rest.
C7_TempoCorrect ==
  (phase = "song" /\ ret.ok)
    => /\ IsNearest(SongLen(ret.song), FS * 60 * BeatCount[arg.symbol][1],
                    BeatCount[arg.symbol][2] * arg.bpm)
       /\ arg.note \in {<<>>, <<"R">>}
            => \A k \in DOMAIN ret.song : ret.song[k].parts = EmptyBag

\* Sum of the samples at index i of the buffers that reach index i
RECURSIVE SumAt(_, _)
SumAt(segments, i) ==
  IF segments = <<>> THEN 0
  ELSE (IF i <= Len(Head(segments)) THEN Head(segments)[i] ELSE 0) + SumAt(Tail(segments), i)

Orderings(n) == {p \in [1..n -> 1..n] : \A a, b \in 1..n : p[a] = p[b] => a = b}

\* C8: the mix has the length of the longest input, each sample is the sum
\* of the inputs at that index clipped to [-32768, 32767], the order of the
\* inputs does not matter, and no input gives the empty buffer.
C8_MixSumsAndClips ==
  phase = "out" =>
    /\ \A k \in DOMAIN arg : Len(arg[k]) <= Len(ret)
    /\ arg # <<>> => \E k \in DOMAIN arg : Len(arg[k]) = Len(ret)
    /\ arg = <<>> => ret = <<>>
    /\ \A i \in DOMAIN ret :
         /\ ret[i] = Max(-32768, Min(32767, SumAt(arg, i)))
         /\ ret[i] >= -32768
         /\ ret[i] <= 32767
    /\ \A p \in Orderings(Len(arg)) :
         mix_audio_segments([k \in DOMAIN arg |-> arg[p[k]]]) = ret

C8_Witness ==
  /\ phase = "out"
  /\ arg = << <<20000, -32768>>, <<20000>>, <<20000, -32768>> >>
  /\ ret = <<32767, -32768>>

\* C9: a sounding note of fewer than 2 * fadeSamples samples is synthesized
\* without failure, with its full length and with the fades clamped to the
\* buffer.
C9_ShortNoteSynthesized ==
  LET n == SampleCount(adjust_tempo(arg.bpm)[arg.symbol])
      fade == (FadeMs * FS) \div 1000
  IN  ( /\ phase = "tone"
        /\ arg.note \notin {<<>>, <<"R">>}
        /\ n < 2 * fade )
      => /\ ret.ok
         /\ ret.audio.n = n
         /\ ret.audio.fade_in = <<1, Min(n, fade)>>
         /\ ret.audio.fade_out = <<Max(1, n - fade + 1), n>>

\* The arrays of at least one sample, in order
RECURSIVE NonEmptyInOrder(_)
NonEmptyInOrder(segments) ==
  IF segments = <<>> THEN <<>>
  ELSE (IF Head(segments).n > 0 THEN <<Head(segments)>> ELSE <<>>)
       \o NonEmptyInOrder(Tail(segments))

RECURSIVE TotalSamples(_)
TotalSamples(segments) ==
  IF segments = <<>> THEN 0 ELSE Head(segments).n + TotalSamples(Tail(segments))

\* seg is the mix of the notes of token: one tone of the segment's length
\* per sounding note, and nothing else
IsMixOfToken(seg, token) ==
  LET notes == parse_note_token(token).notes
      tones == BagToSet(seg.parts)
  IN  /\ \A tone \in tones : tone.n = seg.n
      /\ \A nm \in NoteNames :
           NOTE_FREQS[nm] # 0 =>
             Cardinality({i \in DOMAIN notes : notes[i] \in NoteNames
                                               /\ NOTE_FREQS[notes[i]] = NOTE_FREQS[nm]})
               = BagCardinality([tone \in {x \in tones : x.freq = NOTE_FREQS[nm]}
                                   |-> seg.parts[tone]])
      /\ \A tone \in tones : \E i \in DOMAIN notes :
           notes[i] \in NoteNames /\ NOTE_FREQS[notes[i]] = tone.freq

\* C10: the buffer play_song returns is the concatenation, in token order,
\* of the mixes of the tokens; its length is the sum of their lengths; no
\* token gives the empty buffer and no playback.
C10_Concatenation ==
  \A t \in Threads :
    LET c == call[t]
    IN  c.returned =>
          /\ Len(c.segments) = Len(c.tokens)
          /\ \A k \in DOMAIN c.tokens : IsMixOfToken(c.segments[k], c.tokens[k])
          /\ c.song = NonEmptyInOrder(c.segments)
          /\ SongLen(c.song) = TotalSamples(c.segments)
          /\ c.tokens = <<>> => (c.song = <<>> /\ ~PlayedBy(t))

C10_Witness ==
  \E t \in Threads :
    /\ call[t].returned
    /\ call[t].tokens = <<Cq, CEs>>
    /\ Len(call[t].song) = 2
    /\ call[t].song[1].n > call[t].song[2].n
    /\ BagCardinality(call[t].song[2].parts) = 2

====
